---- MODULE Spec2Model ----
(***************************************************************************)
(* Voting, counter reconciliation and grievance update of civic-connect.   *)
(* The store is the relational schema of migrations/0000_init.sql; the     *)
(* operations are the storage methods of PostgreSQLStorage and the route   *)
(* handlers that call them.  Every SQL statement is one atomic step, so a  *)
(* handler is a sequence of steps that other requests may interleave.      *)
(***************************************************************************)
EXTENDS Integers, FiniteSets, Sequences, Bags, TLC

VARIABLES
    grievances,   \* table grievances: id -> row
    comments,     \* table comments:   id -> row
    userVotes,    \* table user_votes: a bag of rows (the row id is left out)
    departments,  \* table departments: id -> row
    reqs,         \* the requests being served, one per connection slot
    before,       \* the tables as they were when the request served alone arrived
    origin        \* the tables before the previous request, when this one repeats it

vars == <<grievances, comments, userVotes, departments, reqs, before, origin>>

----------------------------------------------------------------------------
(* Bounds of the model *)

NumUsers == 2
NumGrievances == 1
NumComments == 1
NumSlots == 2
MaxBodyCount == 1

\* an absent text value (undefined, null)
NULL == "null"
\* an absent id: a NULL reference column, an undefined argument, no session user
NoId == 0

Users == 1..NumUsers
GrievanceIds == 1..NumGrievances
CommentIds == 1..NumComments
Slots == 1..NumSlots

\* ids a request may carry: the last one names no row
ReqGrievanceIds == 1..(NumGrievances + 1)
ReqCommentIds == 1..(NumComments + 1)

VoteTypes == {"up", "down"}
\* what a request body may carry as voteType: NULL is a body without the field
BodyVoteTypes == {"up", "down", "sideways", NULL}

\* grievance_status
GrievanceStatus == {"pending", "urgent", "in-progress", "resolved", "closed"}

\* users.type of the registered users: the last user is the administrator
UserType(u) == IF u = NumUsers THEN "admin" ELSE "citizen"

\* the session of a request: userId is NoId when nobody is logged in
Session(u) == [userId |-> u, userType |-> IF u = NoId THEN NULL ELSE UserType(u)]

----------------------------------------------------------------------------
(* The tables *)

DB ==
    [grievances |-> grievances, comments |-> comments, userVotes |-> userVotes,
     departments |-> departments]

GrievanceRow(author) ==
    [authorId |-> author, category |-> "roads", municipality |-> "north",
     status |-> "pending", timestamp |-> 0, upvotes |-> 0, downvotes |-> 0]

CommentRow(g, author) ==
    [grievanceId |-> g, authorId |-> author, text |-> "text", upvotes |-> 0]

VoteRow(u, gid, cid, vt) ==
    [userId |-> u, grievanceId |-> gid, commentId |-> cid, voteType |-> vt]

RECURSIVE SumCopies(_, _)
SumCopies(B, S) ==
    IF S = {} THEN 0
    ELSE LET r == CHOOSE x \in S : TRUE IN B[r] + SumCopies(B, S \ {r})

\* SELECT count(*) FROM user_votes WHERE ..., matching the rows the WHERE selects
CountWhere(votes, matching) == SumCopies(votes, matching \cap DOMAIN votes)

\* DELETE FROM user_votes WHERE ...
DeleteWhere(votes, matching) == [r \in DOMAIN votes \ matching |-> votes[r]]

\* UPDATE user_votes SET vote_type = vt WHERE ...
UpdateWhere(votes, matching, vt) ==
    LET Set(r) == IF r \in matching THEN [r EXCEPT !.voteType = vt] ELSE r
    IN  BagOfAll(Set, votes)

\* the table as it would be without CONSTRAINT unique_user_comment_vote
UniqueViolationGrievanceOnly(votes, row) ==
    \E r \in DOMAIN votes :
        /\ r.userId = row.userId
        /\ row.grievanceId # NoId /\ r.grievanceId = row.grievanceId

\* CONSTRAINT unique_user_grievance_vote, unique_user_comment_vote: NULLs never collide
UniqueViolation(votes, row) ==
    \E r \in DOMAIN votes :
        /\ r.userId = row.userId
        /\ \/ row.grievanceId # NoId /\ r.grievanceId = row.grievanceId
           \/ row.commentId # NoId /\ r.commentId = row.commentId

\* CHECK (vote_type IN ('up','down')) and CONSTRAINT vote_target_check
CheckViolation(row) ==
    \/ row.voteType \notin VoteTypes
    \/ ~ \/ row.grievanceId # NoId /\ row.commentId = NoId
         \/ row.grievanceId = NoId /\ row.commentId # NoId

HasGrievance(db, id) == id \in DOMAIN db.grievances
HasComment(db, id) == id \in DOMAIN db.comments

\* REFERENCES users(id), grievances(id), comments(id)
ForeignKeyViolation(db, row) ==
    \/ row.userId \notin Users
    \/ row.grievanceId # NoId /\ ~HasGrievance(db, row.grievanceId)
    \/ row.commentId # NoId /\ ~HasComment(db, row.commentId)

\* INSERT INTO user_votes VALUES (row): the new table, or the SQLSTATE of the failure
InsertUserVote(db, row) ==
    IF CheckViolation(row) THEN [db |-> db, code |-> "23514"]
    ELSE IF UniqueViolation(db.userVotes, row) THEN [db |-> db, code |-> "23505"]
    ELSE IF ForeignKeyViolation(db, row) THEN [db |-> db, code |-> "23503"]
    ELSE [db |-> [db EXCEPT !.userVotes = @ (+) SetToBag({row})], code |-> "ok"]

\* a WHERE clause that forgets the target: every row of the user matches
VoteConditionsUserOnly(r, userId, grievanceId, commentId) == r.userId = userId

\* the WHERE clause getUserVote and removeVote build
VoteConditions(r, userId, grievanceId, commentId) ==
    /\ r.userId = userId
    /\ grievanceId # NoId => r.grievanceId = grievanceId
    /\ commentId # NoId => r.commentId = commentId

\* the WHERE clause of the fallback update of createOrUpdateVote
UpsertConditions(r, vote) ==
    /\ r.userId = vote.userId
    /\ IF vote.grievanceId # NoId
       THEN r.grievanceId = vote.grievanceId
       ELSE r.commentId = vote.commentId

UpdateUserVote(db, vote) ==
    LET matching == {r \in DOMAIN db.userVotes : UpsertConditions(r, vote)}
    IN  [db EXCEPT !.userVotes = UpdateWhere(@, matching, vote.voteType)]

CountVotes(db, grievanceId, commentId, vt) ==
    LET matching == {r \in DOMAIN db.userVotes :
                        /\ r.voteType = vt
                        /\ IF grievanceId # NoId THEN r.grievanceId = grievanceId
                           ELSE r.commentId = commentId}
    IN  CountWhere(db.userVotes, matching)

\* a recount that adds the counts to the stored counters instead of setting them
AddGrievanceCounts(db, id, up, down) ==
    IF HasGrievance(db, id)
    THEN [db EXCEPT !.grievances[id].upvotes = @ + up,
                    !.grievances[id].downvotes = @ + down]
    ELSE db

\* UPDATE grievances SET upvotes, downvotes WHERE id: no row, nothing written
SetGrievanceCounts(db, id, up, down) ==
    IF HasGrievance(db, id)
    THEN [db EXCEPT !.grievances[id].upvotes = up, !.grievances[id].downvotes = down]
    ELSE db

SetCommentCounts(db, id, up) ==
    IF HasComment(db, id) THEN [db EXCEPT !.comments[id].upvotes = up] ELSE db

----------------------------------------------------------------------------
(* PostgreSQLStorage *)

\* what a select that finds no row gives: every field absent
NoGrievance == [authorId |-> NoId, status |-> NULL, upvotes |-> 0, downvotes |-> 0]
NoVote == VoteRow(NoId, NoId, NoId, NULL)

getGrievance(db, id) == IF HasGrievance(db, id) THEN db.grievances[id] ELSE NoGrievance

\* the vote of any user on the target
getAnyVote(db, userId, grievanceId, commentId) ==
    LET m == {r \in DOMAIN db.userVotes :
                 /\ grievanceId # NoId => r.grievanceId = grievanceId
                 /\ commentId # NoId => r.commentId = commentId}
    IN  IF m = {} THEN NoVote ELSE CHOOSE r \in m : TRUE

\* .limit(1): one of the matching rows
getUserVote(db, userId, grievanceId, commentId) ==
    LET m == {r \in DOMAIN db.userVotes :
                 VoteConditions(r, userId, grievanceId, commentId)}
    IN  IF m = {} THEN NoVote ELSE CHOOSE r \in m : TRUE

\* a remove that deletes nothing
removeNothing(db, userId, grievanceId, commentId) ==
    [db EXCEPT !.userVotes = DeleteWhere(@, {})]

removeVote(db, userId, grievanceId, commentId) ==
    LET matching == {r \in DOMAIN db.userVotes :
                        VoteConditions(r, userId, grievanceId, commentId)}
    IN  [db EXCEPT !.userVotes = DeleteWhere(@, matching)]

\* a catch that tests for the foreign-key code instead of the unique-violation code
CaughtForeignKeyOnly(code) == code = "23503"

\* whether createOrUpdateVote catches the failure of its insert
CaughtByUpsert(code) == code = "23505"

createOrUpdateVote(db, vote) ==
    LET ins == InsertUserVote(db, vote)
    IN  IF ins.code = "ok" THEN [db |-> ins.db, error |-> NULL]
        ELSE IF CaughtByUpsert(ins.code)
             THEN [db |-> UpdateUserVote(db, vote), error |-> NULL]
             ELSE [db |-> db, error |-> ins.code]

updateVoteCounts(db, grievanceId, commentId) ==
    LET d1 == IF grievanceId # NoId
              THEN SetGrievanceCounts(db, grievanceId,
                       CountVotes(db, grievanceId, NoId, "up"),
                       CountVotes(db, grievanceId, NoId, "down"))
              ELSE db
    IN  IF commentId # NoId
        THEN SetCommentCounts(d1, commentId, CountVotes(d1, NoId, commentId, "up"))
        ELSE d1

----------------------------------------------------------------------------
(* Route middleware and validation *)

\* a middleware that lets every request through
requireNothing(req) == req.userId = req.userId

\* req.session.userId of the request
requireAuth(req) == req.userId # NoId

ValidVoteType(voteType) == voteType # NULL /\ voteType \in VoteTypes

\* a branch that tests only existingVote: any click on a held vote removes it
ToggleRemovesAny(existing, voteType) == existing # NULL

\* existingVote && existingVote.voteType === voteType: the click removes the vote
ToggleRemoves(existing, voteType) == existing # NULL /\ existing = voteType

\* a vote handler that goes from its vote mutation straight to the reads
SkipRecount(req) ==
    [req EXCEPT !.existingVote = NULL,
                !.pc = IF req.grievanceId # NoId THEN "getUpdated" ELSE "getUserVoteAfter"]

\* a vote handler once its vote mutation is done: on to the recount
AfterMutation(req) == [req EXCEPT !.existingVote = NULL, !.pc = "countUp"]

\* an ownership check that lets every logged-in caller through
MayUpdateAnyone(grievance, session) == session.userId # NoId

\* PATCH /api/grievances/:id: who may update
MayUpdate(grievance, session) ==
    grievance.authorId = session.userId \/ session.userType = "admin"

----------------------------------------------------------------------------
(* Requests *)

NoBody == << >>

NoResponse ==
    [status |-> 0, upvotes |-> 0, downvotes |-> 0, userVote |-> NULL, error |-> NULL]

\* res.status(status).json({ error })
ErrorResponse(status, code) == [NoResponse EXCEPT !.status = status, !.error = code]

IdleRequest ==
    [route |-> NULL, pc |-> "idle", userId |-> NoId, userType |-> NULL,
     grievanceId |-> NoId, commentId |-> NoId, voteType |-> NULL, updates |-> NoBody,
     existingVote |-> NULL, upvotesResult |-> 0, downvotesResult |-> 0,
     response |-> NoResponse]

NewRequest(route, session, gid, cid, voteType, updates) ==
    [IdleRequest EXCEPT !.route = route, !.userId = session.userId,
                        !.userType = session.userType, !.grievanceId = gid,
                        !.commentId = cid, !.voteType = voteType, !.updates = updates]

InFlight(s) == reqs[s].pc \notin {"idle", "done"}
Idle(s) == reqs[s].pc = "idle"
AtRest == \A s \in Slots : ~InFlight(s)

Done(req, response) == [req EXCEPT !.pc = "done", !.response = response]

SetDB(db) ==
    /\ grievances' = db.grievances
    /\ comments' = db.comments
    /\ userVotes' = db.userVotes
    /\ departments' = db.departments

VoteOf(req) == VoteRow(req.userId, req.grievanceId, req.commentId, req.voteType)

----------------------------------------------------------------------------
(* POST /api/grievances/:id/vote and POST /api/comments/:id/vote *)

\* a grievance vote handler without the lookup of the grievance
GrievanceVoteAdmitNoLookup(db, req) ==
    IF ~requireAuth(req) THEN Done(req, ErrorResponse(401, NULL))
    ELSE IF ~ValidVoteType(req.voteType) THEN Done(req, ErrorResponse(400, NULL))
    ELSE [req EXCEPT !.pc = "getUserVote"]

\* requireAuth, the voteType check and the lookup of the grievance
GrievanceVoteAdmit(db, req) ==
    IF ~requireAuth(req) THEN Done(req, ErrorResponse(401, NULL))
    ELSE IF ~ValidVoteType(req.voteType) THEN Done(req, ErrorResponse(400, NULL))
    ELSE IF ~HasGrievance(db, req.grievanceId) THEN Done(req, ErrorResponse(404, NULL))
    ELSE [req EXCEPT !.pc = "getUserVote"]

\* requireAuth and the voteType check: the comment is not looked up
CommentVoteAdmit(req) ==
    IF ~requireAuth(req) THEN Done(req, ErrorResponse(401, NULL))
    ELSE IF ~ValidVoteType(req.voteType) THEN Done(req, ErrorResponse(400, NULL))
    ELSE [req EXCEPT !.pc = "getUserVote"]

StartGrievanceVote(s, u, id, voteType) ==
    /\ Idle(s)
    /\ reqs' = [reqs EXCEPT ![s] = GrievanceVoteAdmit(DB,
                   NewRequest("voteGrievance", Session(u), id, NoId, voteType, NoBody))]
    /\ UNCHANGED <<grievances, comments, userVotes, departments>>

StartCommentVote(s, u, id, voteType) ==
    /\ Idle(s)
    /\ reqs' = [reqs EXCEPT ![s] = CommentVoteAdmit(
                   NewRequest("voteComment", Session(u), NoId, id, voteType, NoBody))]
    /\ UNCHANGED <<grievances, comments, userVotes, departments>>

\* const existingVote = await storage.getUserVote(...), and the branch on it
GetUserVote(s) ==
    LET req == reqs[s]
        existing == getUserVote(DB, req.userId, req.grievanceId, req.commentId).voteType
    IN  /\ req.pc = "getUserVote"
        /\ reqs' = [reqs EXCEPT ![s] =
               [req EXCEPT !.existingVote = existing,
                           !.pc = IF ToggleRemoves(existing, req.voteType)
                                  THEN "removeVote" ELSE "insertVote"]]
        /\ UNCHANGED <<grievances, comments, userVotes, departments>>
        /\ UNCHANGED <<before, origin>>

RemoveVote(s) ==
    LET req == reqs[s]
    IN  /\ req.pc = "removeVote"
        /\ SetDB(removeVote(DB, req.userId, req.grievanceId, req.commentId))
        /\ reqs' = [reqs EXCEPT ![s] = AfterMutation(req)]
        /\ UNCHANGED <<before, origin>>

\* createOrUpdateVote: the insert, caught when it fails on the unique constraint
InsertVote(s) ==
    LET req == reqs[s]
        ins == InsertUserVote(DB, VoteOf(req))
    IN  /\ req.pc = "insertVote"
        /\ SetDB(ins.db)
        /\ reqs' = [reqs EXCEPT ![s] =
               IF ins.code = "ok" THEN AfterMutation(req)
               ELSE IF CaughtByUpsert(ins.code) THEN [req EXCEPT !.pc = "updateVote"]
               ELSE Done(req, ErrorResponse(500, ins.code))]
        /\ UNCHANGED <<before, origin>>

\* createOrUpdateVote: the fallback update
UpdateVote(s) ==
    LET req == reqs[s]
    IN  /\ req.pc = "updateVote"
        /\ SetDB(UpdateUserVote(DB, VoteOf(req)))
        /\ reqs' = [reqs EXCEPT ![s] = AfterMutation(req)]
        /\ UNCHANGED <<before, origin>>

\* updateVoteCounts: the count of the up votes
CountUp(s) ==
    LET req == reqs[s]
    IN  /\ req.pc = "countUp"
        /\ reqs' = [reqs EXCEPT ![s] =
               [req EXCEPT !.upvotesResult =
                               CountVotes(DB, req.grievanceId, req.commentId, "up"),
                           !.pc = IF req.grievanceId # NoId
                                  THEN "countDown" ELSE "setCounts"]]
        /\ UNCHANGED <<grievances, comments, userVotes, departments>>
        /\ UNCHANGED <<before, origin>>

\* updateVoteCounts: the count of the down votes (grievances only)
CountDown(s) ==
    LET req == reqs[s]
    IN  /\ req.pc = "countDown"
        /\ reqs' = [reqs EXCEPT ![s] =
               [req EXCEPT !.downvotesResult =
                               CountVotes(DB, req.grievanceId, req.commentId, "down"),
                           !.pc = "setCounts"]]
        /\ UNCHANGED <<grievances, comments, userVotes, departments>>
        /\ UNCHANGED <<before, origin>>

\* updateVoteCounts: the write of the counts onto the grievance or the comment
SetCounts(s) ==
    LET req == reqs[s]
    IN  /\ req.pc = "setCounts"
        /\ SetDB(IF req.grievanceId # NoId
                 THEN SetGrievanceCounts(DB, req.grievanceId,
                                         req.upvotesResult, req.downvotesResult)
                 ELSE SetCommentCounts(DB, req.commentId, req.upvotesResult))
        /\ reqs' = [reqs EXCEPT ![s] =
               [req EXCEPT !.upvotesResult = 0, !.downvotesResult = 0,
                           !.pc = IF req.grievanceId # NoId
                                  THEN "getUpdated" ELSE "getUserVoteAfter"]]
        /\ UNCHANGED <<before, origin>>

\* const updatedGrievance = await storage.getGrievance(req.params.id)
GetUpdated(s) ==
    LET req == reqs[s]
        updated == getGrievance(DB, req.grievanceId)
    IN  /\ req.pc = "getUpdated"
        /\ reqs' = [reqs EXCEPT ![s] =
               [req EXCEPT !.response.upvotes = updated.upvotes,
                           !.response.downvotes = updated.downvotes,
                           !.pc = "getUserVoteAfter"]]
        /\ UNCHANGED <<grievances, comments, userVotes, departments>>
        /\ UNCHANGED <<before, origin>>

\* const userVote = await storage.getUserVote(...), and res.json
GetUserVoteAfter(s) ==
    LET req == reqs[s]
        userVote == getUserVote(DB, req.userId, req.grievanceId, req.commentId)
    IN  /\ req.pc = "getUserVoteAfter"
        /\ reqs' = [reqs EXCEPT ![s] =
               Done(req, [req.response EXCEPT !.status = 200,
                                              !.userVote = userVote.voteType])]
        /\ UNCHANGED <<grievances, comments, userVotes, departments>>
        /\ UNCHANGED <<before, origin>>

VoteStep(s) ==
    \/ GetUserVote(s)
    \/ RemoveVote(s)
    \/ InsertVote(s)
    \/ UpdateVote(s)
    \/ CountUp(s)
    \/ CountDown(s)
    \/ SetCounts(s)
    \/ GetUpdated(s)
    \/ GetUserVoteAfter(s)

----------------------------------------------------------------------------
(* PATCH /api/grievances/:id *)

\* an update that refuses to move a grievance out of resolved or closed
updateGrievanceTerminal(db, id, updates) ==
    IF "status" \in DOMAIN updates /\ updates["status"] \notin GrievanceStatus
    THEN [db |-> db, error |-> "22P02"]
    ELSE IF ~HasGrievance(db, id) THEN [db |-> db, error |-> NULL]
    ELSE IF db.grievances[id].status \in {"resolved", "closed"}
         THEN [db |-> db, error |-> NULL]
    ELSE [db |-> [db EXCEPT !.grievances[id] =
                      [f \in DOMAIN @ |-> IF f \in DOMAIN updates
                                          THEN updates[f] ELSE @[f]]],
          error |-> NULL]

\* UPDATE grievances SET ...updates WHERE id: every column the body names is set
updateGrievance(db, id, updates) ==
    IF "status" \in DOMAIN updates /\ updates["status"] \notin GrievanceStatus
    THEN [db |-> db, error |-> "22P02"]
    ELSE IF ~HasGrievance(db, id) THEN [db |-> db, error |-> NULL]
    ELSE [db |-> [db EXCEPT !.grievances[id] =
                      [f \in DOMAIN @ |-> IF f \in DOMAIN updates
                                          THEN updates[f] ELSE @[f]]],
          error |-> NULL]

\* requireAuth, the lookup of the grievance and the ownership check
PatchAdmit(db, req) ==
    IF ~requireAuth(req) THEN Done(req, ErrorResponse(401, NULL))
    ELSE IF ~HasGrievance(db, req.grievanceId) THEN Done(req, ErrorResponse(404, NULL))
    ELSE IF ~MayUpdate(getGrievance(db, req.grievanceId), req)
         THEN Done(req, ErrorResponse(403, NULL))
    ELSE [req EXCEPT !.pc = "updateGrievance"]

StartPatch(s, u, id, updates) ==
    /\ Idle(s)
    /\ reqs' = [reqs EXCEPT ![s] = PatchAdmit(DB,
                   NewRequest("patchGrievance", Session(u), id, NoId, NULL, updates))]
    /\ UNCHANGED <<grievances, comments, userVotes, departments>>

\* const updatedGrievance = await storage.updateGrievance(...), and res.json
UpdateGrievance(s) ==
    LET req == reqs[s]
        upd == updateGrievance(DB, req.grievanceId, req.updates)
        row == getGrievance(upd.db, req.grievanceId)
    IN  /\ req.pc = "updateGrievance"
        /\ SetDB(upd.db)
        /\ reqs' = [reqs EXCEPT ![s] =
               IF upd.error # NULL THEN Done(req, ErrorResponse(500, upd.error))
               ELSE Done(req, [NoResponse EXCEPT !.status = 200,
                                                 !.upvotes = row.upvotes,
                                                 !.downvotes = row.downvotes])]
        /\ UNCHANGED <<before, origin>>

----------------------------------------------------------------------------
(* POST /api/grievances, DELETE /api/grievances/:id *)

\* the most grievances the table holds
MaxGrievances == NumGrievances + 1

\* gen_random_uuid(): an id no row of the table has
NewGrievanceId(db) ==
    CHOOSE i \in 1..MaxGrievances :
        /\ i \notin DOMAIN db.grievances
        /\ \A j \in 1..MaxGrievances : j \notin DOMAIN db.grievances => i <= j

\* insertGrievanceSchema.parse: status is optional, and one of the enum when given
ParsesAsGrievance(body) ==
    "status" \in DOMAIN body => body["status"] \in GrievanceStatus

\* the columns insertGrievanceSchema omits
OmittedGrievanceKeys == {"id", "timestamp", "upvotes", "downvotes", "updatedAt"}

\* { ...req.body, authorId: req.session.userId } parsed by a schema that omits
\* no column
GrievanceDataUnstripped(body, authorId) ==
    [k \in DOMAIN body \cup {"authorId"} |-> IF k \in DOMAIN body THEN body[k] ELSE authorId]

\* insertGrievanceSchema.parse({ ...req.body, authorId: req.session.userId }):
\* authorId comes last in the spread, and the parse drops the omitted keys
GrievanceData(body, authorId) ==
    [k \in (DOMAIN body \cup {"authorId"}) \ OmittedGrievanceKeys |->
        IF k = "authorId" THEN authorId ELSE body[k]]

\* INSERT INTO grievances: a column the data does not name takes its default,
\* status pending and the counters 0
createGrievance(db, authorId, body) ==
    LET id == NewGrievanceId(db)
        data == GrievanceData(body, authorId)
        defaults == GrievanceRow(NoId)
        row == [f \in DOMAIN defaults |->
                   IF f \in DOMAIN data THEN data[f] ELSE defaults[f]]
    IN  [db EXCEPT !.grievances =
            [g \in DOMAIN @ \cup {id} |-> IF g = id THEN row ELSE @[g]]]

\* requireAuth and the parse of the body
CreateAdmit(req) ==
    IF ~requireAuth(req) THEN Done(req, ErrorResponse(401, NULL))
    ELSE IF ~ParsesAsGrievance(req.updates) THEN Done(req, ErrorResponse(400, NULL))
    ELSE [req EXCEPT !.pc = "createGrievance"]

StartCreate(s, u, body) ==
    /\ Idle(s)
    /\ Cardinality(DOMAIN grievances) < MaxGrievances
    /\ reqs' = [reqs EXCEPT ![s] = CreateAdmit(
                   NewRequest("createGrievance", Session(u), NoId, NoId, NULL, body))]
    /\ UNCHANGED <<grievances, comments, userVotes, departments>>

\* const grievance = await storage.createGrievance(grievanceData), and res.status(201)
CreateGrievance(s) ==
    LET req == reqs[s]
        id == NewGrievanceId(DB)
    IN  /\ req.pc = "createGrievance"
        /\ SetDB(createGrievance(DB, req.userId, req.updates))
        /\ reqs' = [reqs EXCEPT ![s] =
               Done([req EXCEPT !.grievanceId = id], [NoResponse EXCEPT !.status = 201])]
        /\ UNCHANGED <<before, origin>>

\* rows that reference the grievance: comments.grievance_id, user_votes.grievance_id
GrievanceReferenced(db, id) ==
    \/ \E c \in DOMAIN db.comments : db.comments[c].grievanceId = id
    \/ \E r \in DOMAIN db.userVotes : r.grievanceId = id

\* DELETE FROM grievances WHERE id: refused while a row references the grievance
deleteGrievance(db, id) ==
    IF ~HasGrievance(db, id) THEN [db |-> db, deleted |-> FALSE, error |-> NULL]
    ELSE IF GrievanceReferenced(db, id)
         THEN [db |-> db, deleted |-> FALSE, error |-> "23503"]
    ELSE [db |-> [db EXCEPT !.grievances = [g \in DOMAIN @ \ {id} |-> @[g]]],
          deleted |-> TRUE, error |-> NULL]

\* requireAuth, the lookup of the grievance and the ownership check
DeleteAdmit(db, req) ==
    IF ~requireAuth(req) THEN Done(req, ErrorResponse(401, NULL))
    ELSE IF ~HasGrievance(db, req.grievanceId) THEN Done(req, ErrorResponse(404, NULL))
    ELSE IF ~MayUpdate(getGrievance(db, req.grievanceId), req)
         THEN Done(req, ErrorResponse(403, NULL))
    ELSE [req EXCEPT !.pc = "deleteGrievance"]

StartDelete(s, u, id) ==
    /\ Idle(s)
    /\ reqs' = [reqs EXCEPT ![s] = DeleteAdmit(DB,
                   NewRequest("deleteGrievance", Session(u), id, NoId, NULL, NoBody))]
    /\ UNCHANGED <<grievances, comments, userVotes, departments>>

\* const deleted = await storage.deleteGrievance(req.params.id), and the answer
DeleteGrievance(s) ==
    LET req == reqs[s]
        del == deleteGrievance(DB, req.grievanceId)
    IN  /\ req.pc = "deleteGrievance"
        /\ SetDB(del.db)
        /\ reqs' = [reqs EXCEPT ![s] =
               IF del.error # NULL THEN Done(req, ErrorResponse(500, del.error))
               ELSE IF ~del.deleted THEN Done(req, ErrorResponse(404, NULL))
               ELSE Done(req, [NoResponse EXCEPT !.status = 200])]
        /\ UNCHANGED <<before, origin>>

----------------------------------------------------------------------------
(* POST /api/grievances/:id/comments, PATCH and DELETE /api/comments/:id *)

\* the most comments the table holds
MaxComments == NumComments + 1

\* gen_random_uuid(): an id no row of the table has
NewCommentId(db) ==
    CHOOSE i \in 1..MaxComments :
        /\ i \notin DOMAIN db.comments
        /\ \A j \in 1..MaxComments : j \notin DOMAIN db.comments => i <= j

\* insertCommentSchema.parse: the text is required
ParsesAsComment(body) == "text" \in DOMAIN body

\* INSERT INTO comments: refused when grievance_id references no grievance
createComment(db, grievanceId, authorId, body) ==
    LET id == NewCommentId(db)
        row == [CommentRow(grievanceId, authorId) EXCEPT !.text = body["text"]]
    IN  IF ~HasGrievance(db, grievanceId) THEN [db |-> db, error |-> "23503"]
        ELSE [db |-> [db EXCEPT !.comments =
                         [c \in DOMAIN @ \cup {id} |-> IF c = id THEN row ELSE @[c]]],
              error |-> NULL]

\* requireAuth and the parse of the body
CommentCreateAdmit(req) ==
    IF ~requireAuth(req) THEN Done(req, ErrorResponse(401, NULL))
    ELSE IF ~ParsesAsComment(req.updates) THEN Done(req, ErrorResponse(400, NULL))
    ELSE [req EXCEPT !.pc = "createComment"]

StartCommentCreate(s, u, id, body) ==
    /\ Idle(s)
    /\ Cardinality(DOMAIN comments) < MaxComments
    /\ reqs' = [reqs EXCEPT ![s] = CommentCreateAdmit(
                   NewRequest("createComment", Session(u), id, NoId, NULL, body))]
    /\ UNCHANGED <<grievances, comments, userVotes, departments>>

\* const comment = await storage.createComment(commentData), and res.status(201)
CreateComment(s) ==
    LET req == reqs[s]
        ins == createComment(DB, req.grievanceId, req.userId, req.updates)
    IN  /\ req.pc = "createComment"
        /\ SetDB(ins.db)
        /\ reqs' = [reqs EXCEPT ![s] =
               IF ins.error # NULL THEN Done(req, ErrorResponse(500, ins.error))
               ELSE Done([req EXCEPT !.commentId = NewCommentId(DB)],
                         [NoResponse EXCEPT !.status = 201])]
        /\ UNCHANGED <<before, origin>>

\* UPDATE comments SET text WHERE id
updateComment(db, id, text) ==
    IF HasComment(db, id)
    THEN [db |-> [db EXCEPT !.comments[id].text = text], found |-> TRUE]
    ELSE [db |-> db, found |-> FALSE]

\* the table as it would be without REFERENCES comments(id): nothing refers
CommentUnreferenced(db, id) == HasComment(db, id) /\ ~HasComment(db, id)

\* rows that reference the comment: user_votes.comment_id
CommentReferenced(db, id) == \E r \in DOMAIN db.userVotes : r.commentId = id

\* DELETE FROM comments WHERE id: refused while a vote row references the comment
deleteComment(db, id) ==
    IF ~HasComment(db, id) THEN [db |-> db, deleted |-> FALSE, error |-> NULL]
    ELSE IF CommentReferenced(db, id)
         THEN [db |-> db, deleted |-> FALSE, error |-> "23503"]
    ELSE [db |-> [db EXCEPT !.comments = [c \in DOMAIN @ \ {id} |-> @[c]]],
          deleted |-> TRUE, error |-> NULL]

\* requireAuth and the check that the body has a text
CommentPatchAdmit(req) ==
    IF ~requireAuth(req) THEN Done(req, ErrorResponse(401, NULL))
    ELSE IF "text" \notin DOMAIN req.updates THEN Done(req, ErrorResponse(400, NULL))
    ELSE [req EXCEPT !.pc = "updateComment"]

StartCommentPatch(s, u, id, body) ==
    /\ Idle(s)
    /\ reqs' = [reqs EXCEPT ![s] = CommentPatchAdmit(
                   NewRequest("patchComment", Session(u), NoId, id, NULL, body))]
    /\ UNCHANGED <<grievances, comments, userVotes, departments>>

\* const comment = await storage.updateComment(req.params.id, text), and the answer
UpdateComment(s) ==
    LET req == reqs[s]
        upd == updateComment(DB, req.commentId, req.updates["text"])
    IN  /\ req.pc = "updateComment"
        /\ SetDB(upd.db)
        /\ reqs' = [reqs EXCEPT ![s] =
               IF ~upd.found THEN Done(req, ErrorResponse(404, NULL))
               ELSE Done(req, [NoResponse EXCEPT !.status = 200])]
        /\ UNCHANGED <<before, origin>>

\* requireAuth: nothing else is checked before the delete
CommentDeleteAdmit(req) ==
    IF ~requireAuth(req) THEN Done(req, ErrorResponse(401, NULL))
    ELSE [req EXCEPT !.pc = "deleteComment"]

StartCommentDelete(s, u, id) ==
    /\ Idle(s)
    /\ reqs' = [reqs EXCEPT ![s] = CommentDeleteAdmit(
                   NewRequest("deleteComment", Session(u), NoId, id, NULL, NoBody))]
    /\ UNCHANGED <<grievances, comments, userVotes, departments>>

\* const deleted = await storage.deleteComment(req.params.id), and the answer
DeleteComment(s) ==
    LET req == reqs[s]
        del == deleteComment(DB, req.commentId)
    IN  /\ req.pc = "deleteComment"
        /\ SetDB(del.db)
        /\ reqs' = [reqs EXCEPT ![s] =
               IF del.error # NULL THEN Done(req, ErrorResponse(500, del.error))
               ELSE IF ~del.deleted THEN Done(req, ErrorResponse(404, NULL))
               ELSE Done(req, [NoResponse EXCEPT !.status = 200])]
        /\ UNCHANGED <<before, origin>>

----------------------------------------------------------------------------
(* The initial store, and the two ways requests are served *)

\* the registered user who wrote grievance or comment i
AuthorOf(i) == ((i - 1) % NumUsers) + 1

InitDB ==
    [grievances |-> [g \in GrievanceIds |-> GrievanceRow(AuthorOf(g))],
     comments |-> [c \in CommentIds |->
                      CommentRow(((c - 1) % NumGrievances) + 1, AuthorOf(c))],
     userVotes |-> EmptyBag,
     departments |-> << >>]

NoOrigin == [set |-> FALSE, db |-> InitDB]

Init ==
    /\ grievances = InitDB.grievances
    /\ comments = InitDB.comments
    /\ userVotes = InitDB.userVotes
    /\ departments = InitDB.departments
    /\ reqs = [s \in Slots |-> IdleRequest]
    /\ before = InitDB
    /\ origin = NoOrigin

\* the callers of a request: the registered users, and nobody (no session)
Callers == Users \cup {NoId}

\* request bodies of PATCH /api/grievances/:id
PatchBodies ==
    {("status" :> st) : st \in {"resolved"}}
        \cup {("upvotes" :> n) : n \in 0..MaxBodyCount}
        \cup {("downvotes" :> n) : n \in 0..MaxBodyCount}

SameRequest(a, b) ==
    /\ a.route = b.route /\ a.userId = b.userId /\ a.voteType = b.voteType
    /\ a.grievanceId = b.grievanceId /\ a.commentId = b.commentId
    /\ a.updates = b.updates

\* the response is sent and the connection slot is free again
Release(s) ==
    /\ reqs[s].pc = "done"
    /\ reqs' = [reqs EXCEPT ![s] = IdleRequest]
    /\ UNCHANGED <<grievances, comments, userVotes, departments>>

\* Grievance votes of all users served concurrently: the statements interleave.
Next ==
    \E s \in Slots :
        \/ /\ \E u \in Users, id \in GrievanceIds, vt \in VoteTypes :
                  StartGrievanceVote(s, u, id, vt)
           /\ UNCHANGED <<before, origin>>
        \/ VoteStep(s)
        \/ /\ Release(s)
           /\ UNCHANGED <<before, origin>>

Spec == Init /\ [][Next]_vars

\* Votes of one user on grievances and comments served concurrently
\* (a double click, two tabs).
FirstUser == CHOOSE u \in Users : \A v \in Users : u <= v

NextSameUser ==
    \E s \in Slots :
        \/ /\ \E id \in GrievanceIds, vt \in VoteTypes :
                  StartGrievanceVote(s, FirstUser, id, vt)
           /\ UNCHANGED <<before, origin>>
        \/ /\ \E id \in CommentIds, vt \in VoteTypes :
                  StartCommentVote(s, FirstUser, id, vt)
           /\ UNCHANGED <<before, origin>>
        \/ VoteStep(s)
        \/ /\ Release(s)
           /\ UNCHANGED <<before, origin>>

SpecSameUser == Init /\ [][NextSameUser]_vars

\* Requests served one at a time, each to its end before the next arrives.
SeqSlot == CHOOSE s \in Slots : \A t \in Slots : s <= t

Arrive ==
    /\ reqs[SeqSlot].pc = "idle"
    /\ before' = DB
    /\ origin' = NoOrigin

\* the client sends the request it has just been answered once more
Repeat(s) ==
    LET req == reqs[s]
        again == NewRequest(req.route, req, req.grievanceId, req.commentId,
                            req.voteType, req.updates)
    IN  /\ req.pc = "done"
        /\ req.response.status = 200
        /\ reqs' = [reqs EXCEPT ![s] =
               CASE req.route = "voteGrievance" -> GrievanceVoteAdmit(DB, again)
                 [] req.route = "voteComment" -> CommentVoteAdmit(again)
                 [] req.route = "patchGrievance" -> PatchAdmit(DB, again)]
        /\ before' = DB
        /\ origin' = [set |-> TRUE, db |-> before]
        /\ UNCHANGED <<grievances, comments, userVotes, departments>>

NextSeq ==
    \/ /\ Arrive
       /\ \E u \in Callers, id \in ReqGrievanceIds, vt \in BodyVoteTypes :
              StartGrievanceVote(SeqSlot, u, id, vt)
    \/ /\ Arrive
       /\ \E u \in Callers, id \in ReqCommentIds, vt \in BodyVoteTypes :
              StartCommentVote(SeqSlot, u, id, vt)
    \/ /\ Arrive
       /\ \E u \in Callers, id \in ReqGrievanceIds, updates \in PatchBodies :
              StartPatch(SeqSlot, u, id, updates)
    \/ Repeat(SeqSlot)
    \/ VoteStep(SeqSlot)
    \/ UpdateGrievance(SeqSlot)
    \/ /\ Release(SeqSlot)
       /\ before' = DB
       /\ origin' = NoOrigin

SpecSeq == Init /\ [][NextSeq]_vars

\* The storage methods called one at a time, in any order, each to its end.
\* The call is kept in the slot: status 200 when it returned, 500 when it threw.
StorageCall(route, u, gid, cid, voteType, db, error) ==
    LET call == NewRequest(route, [userId |-> u, userType |-> NULL],
                           gid, cid, voteType, NoBody)
    IN  /\ ~InFlight(SeqSlot)
        /\ reqs' = [reqs EXCEPT ![SeqSlot] =
               Done(call, IF error = NULL THEN [NoResponse EXCEPT !.status = 200]
                          ELSE ErrorResponse(500, error))]
        /\ SetDB(db)
        /\ before' = DB
        /\ origin' = IF reqs[SeqSlot].pc = "done" /\ SameRequest(reqs[SeqSlot], call)
                     THEN [set |-> TRUE, db |-> before]
                     ELSE NoOrigin

\* the targets of a vote: a grievance or a comment, never both
Targets ==
    {<<g, NoId>> : g \in GrievanceIds} \cup {<<NoId, c>> : c \in CommentIds}

CallCreateOrUpdateVote(u, t, voteType) ==
    LET r == createOrUpdateVote(DB, VoteRow(u, t[1], t[2], voteType))
    IN  StorageCall("createOrUpdateVote", u, t[1], t[2], voteType, r.db, r.error)

CallRemoveVote(u, t) ==
    StorageCall("removeVote", u, t[1], t[2], NULL,
                removeVote(DB, u, t[1], t[2]), NULL)

CallUpdateVoteCounts(t) ==
    StorageCall("updateVoteCounts", NoId, t[1], t[2], NULL,
                updateVoteCounts(DB, t[1], t[2]), NULL)

NextStorage ==
    \/ \E u \in Users, t \in Targets, vt \in VoteTypes : CallCreateOrUpdateVote(u, t, vt)
    \/ \E u \in Users, t \in Targets : CallRemoveVote(u, t)
    \/ \E t \in Targets : CallUpdateVoteCounts(t)

SpecStorage == Init /\ [][NextStorage]_vars

\* Grievances and comments created, edited and deleted, one request at a time.
\* request bodies that carry a status: every status, and one that is none
StatusBodies ==
    {("status" :> st) : st \in GrievanceStatus \cup {"bogus"}} \cup {NoBody}

\* request bodies of POST and PATCH of a comment: with a text, and without
TextBodies == {("text" :> "edited"), NoBody}

NextContent ==
    \/ /\ Arrive
       /\ \E u \in Callers, body \in StatusBodies : StartCreate(SeqSlot, u, body)
    \/ /\ Arrive
       /\ \E u \in Callers, id \in ReqGrievanceIds, body \in StatusBodies :
              StartPatch(SeqSlot, u, id, body)
    \/ /\ Arrive
       /\ \E u \in Callers, id \in ReqGrievanceIds : StartDelete(SeqSlot, u, id)
    \/ /\ Arrive
       /\ \E u \in Callers, id \in ReqCommentIds, body \in TextBodies :
              StartCommentPatch(SeqSlot, u, id, body)
    \/ /\ Arrive
       /\ \E u \in Callers, id \in ReqCommentIds : StartCommentDelete(SeqSlot, u, id)
    \/ /\ Arrive
       /\ \E u \in Callers, id \in ReqGrievanceIds, body \in TextBodies :
              StartCommentCreate(SeqSlot, u, id, body)
    \/ CreateGrievance(SeqSlot)
    \/ UpdateGrievance(SeqSlot)
    \/ DeleteGrievance(SeqSlot)
    \/ CreateComment(SeqSlot)
    \/ UpdateComment(SeqSlot)
    \/ DeleteComment(SeqSlot)
    \/ /\ Release(SeqSlot)
       /\ before' = DB
       /\ origin' = NoOrigin

SpecContent == Init /\ [][NextContent]_vars

\* Votes cast and grievances and comments deleted, one request at a time.
NextDelete ==
    \/ /\ Arrive
       /\ \E u \in Users, id \in ReqGrievanceIds, vt \in VoteTypes :
              StartGrievanceVote(SeqSlot, u, id, vt)
    \/ /\ Arrive
       /\ \E u \in Users, id \in ReqCommentIds, vt \in VoteTypes :
              StartCommentVote(SeqSlot, u, id, vt)
    \/ /\ Arrive
       /\ \E u \in Users, id \in ReqGrievanceIds : StartDelete(SeqSlot, u, id)
    \/ /\ Arrive
       /\ \E u \in Users, id \in ReqCommentIds : StartCommentDelete(SeqSlot, u, id)
    \/ VoteStep(SeqSlot)
    \/ DeleteGrievance(SeqSlot)
    \/ DeleteComment(SeqSlot)
    \/ /\ Release(SeqSlot)
       /\ before' = DB
       /\ origin' = NoOrigin

SpecDelete == Init /\ [][NextDelete]_vars

\* A burst of concurrent comment votes, then comment votes served one at a time.
\* origin is set once the burst is over: it holds the tables before the burst.
AfterBurst == [set |-> TRUE, db |-> InitDB]

\* the statements of the comment vote handler: no count of down votes, and no
\* read of a grievance
CommentVoteStep(s) ==
    \/ GetUserVote(s)
    \/ RemoveVote(s)
    \/ InsertVote(s)
    \/ UpdateVote(s)
    \/ CountUp(s)
    \/ SetCounts(s)
    \/ GetUserVoteAfter(s)

NextBurst ==
    \/ \E s \in Slots :
           /\ ~origin.set
           /\ \E u \in Users, id \in CommentIds, vt \in VoteTypes :
                  StartCommentVote(s, u, id, vt)
           /\ UNCHANGED <<before, origin>>
    \/ /\ \A s \in Slots : Idle(s)
       /\ \E u \in Users, id \in CommentIds, vt \in VoteTypes :
              StartCommentVote(SeqSlot, u, id, vt)
       /\ before' = DB
       /\ origin' = AfterBurst
    \/ \E s \in Slots : CommentVoteStep(s)
    \/ \E s \in Slots :
           /\ Release(s)
           /\ UNCHANGED <<before, origin>>

SpecBurst == Init /\ [][NextBurst]_vars

----------------------------------------------------------------------------
(* What the claims speak of *)

\* the number of vote rows of user u on the target, and of a kind on the target
RowsOf(db, u, gid, cid) ==
    CountWhere(db.userVotes, {r \in DOMAIN db.userVotes :
        r.userId = u /\ r.grievanceId = gid /\ r.commentId = cid})

RowsOfKind(db, gid, cid, vt) ==
    CountWhere(db.userVotes, {r \in DOMAIN db.userVotes :
        r.grievanceId = gid /\ r.commentId = cid /\ r.voteType = vt})

\* the kind of the vote user u holds on the target, NULL when none
StoredVote(db, u, gid, cid) ==
    LET m == {r \in DOMAIN db.userVotes :
                 r.userId = u /\ r.grievanceId = gid /\ r.commentId = cid}
    IN  IF m = {} THEN NULL ELSE (CHOOSE r \in m : TRUE).voteType

OtherKind(vt) == IF vt = "up" THEN "down" ELSE "up"

\* the request served alone, and whether it was answered 200 on that route
Served == reqs[SeqSlot]
Answered(route) ==
    Served.pc = "done" /\ Served.route = route /\ Served.response.status = 200
AnsweredVote == Answered("voteGrievance") \/ Answered("voteComment")
PriorVote == StoredVote(before, Served.userId, Served.grievanceId, Served.commentId)
VoteNow == StoredVote(DB, Served.userId, Served.grievanceId, Served.commentId)

\* C1: whenever no vote request is in flight, every grievance's upvotes and
\* downvotes equal the numbers of up and down vote rows on it.
C1_CountersMatchRowsAtRest ==
    AtRest =>
        \A g \in DOMAIN grievances :
            /\ grievances[g].upvotes = RowsOfKind(DB, g, NoId, "up")
            /\ grievances[g].downvotes = RowsOfKind(DB, g, NoId, "down")

\* C2: in every reachable state there is at most one vote row per (user,
\* grievance) and at most one per (user, comment).
C2_OneVotePerUserAndTarget ==
    \A u \in Users :
        /\ \A g \in ReqGrievanceIds : RowsOf(DB, u, g, NoId) <= 1
        /\ \A c \in ReqCommentIds : RowsOf(DB, u, NoId, c) <= 1

\* a user holds a grievance vote and a comment vote while an insert of theirs
\* has just been refused
C2_Witness ==
    \E u \in Users, g \in GrievanceIds, c \in CommentIds, s \in Slots :
        /\ RowsOf(DB, u, g, NoId) = 1
        /\ RowsOf(DB, u, NoId, c) = 1
        /\ reqs[s].userId = u
        /\ reqs[s].pc = "updateVote"

\* C3: among concurrent requests of one user on one target no request is
\* answered with a failure (the unique violation never reaches the caller), and
\* a request whose insert lost the race goes on to the update with at most one
\* row for the pair in the table.
C3_ConflictNeverSurfaces ==
    \A s \in Slots :
        /\ reqs[s].response.error # "23505"
        /\ reqs[s].pc = "done" => reqs[s].response.status = 200
        /\ reqs[s].pc = "updateVote" =>
               RowsOf(DB, reqs[s].userId, reqs[s].grievanceId, reqs[s].commentId) <= 1

\* two requests of one user on one target both found no vote and both inserted:
\* one insert won, the other is about to update instead
C3_Witness ==
    \E s, t \in Slots :
        /\ s # t
        /\ reqs[s].userId = reqs[t].userId
        /\ reqs[s].grievanceId = reqs[t].grievanceId
        /\ reqs[s].commentId = reqs[t].commentId
        /\ reqs[s].pc = "updateVote" /\ reqs[s].existingVote = NULL
        /\ reqs[t].pc = "countUp"
        /\ RowsOf(DB, reqs[s].userId, reqs[s].grievanceId, reqs[s].commentId) = 1

\* C4: a vote request of kind k served alone and answered 200 removes the
\* caller's vote when the prior vote was k, and otherwise leaves the caller
\* with exactly one row of kind k on the target.
C4_ToggleOutcome ==
    AnsweredVote =>
        IF PriorVote = Served.voteType
        THEN /\ VoteNow = NULL
             /\ RowsOf(DB, Served.userId, Served.grievanceId, Served.commentId) = 0
        ELSE /\ VoteNow = Served.voteType
             /\ RowsOf(DB, Served.userId, Served.grievanceId, Served.commentId) = 1

\* a comment vote overwritten by the other kind
C4_Witness ==
    /\ Answered("voteComment")
    /\ PriorVote = OtherKind(Served.voteType)
    /\ VoteNow = Served.voteType

\* the denormalized counters of a target
Counters(db, gid, cid) ==
    IF gid # NoId
    THEN <<db.grievances[gid].upvotes, db.grievances[gid].downvotes>>
    ELSE <<db.comments[cid].upvotes>>

\* C5: when a user without a vote on a target sends the same vote twice in a
\* row, each served alone, the user has no vote on the target afterwards and
\* the target's counters are what they were before the first request.
C5_DoubleToggleRoundTrip ==
    ( /\ AnsweredVote
      /\ origin.set
      /\ StoredVote(origin.db, Served.userId, Served.grievanceId, Served.commentId)
            = NULL )
    => /\ VoteNow = NULL
       /\ Counters(DB, Served.grievanceId, Served.commentId)
             = Counters(origin.db, Served.grievanceId, Served.commentId)

\* C6: a grievance vote of the other kind than the one held, served alone,
\* overwrites the row (one row, of the new kind, returned as userVote), lowers
\* the old kind's counter by one and raises the new kind's counter by one.
C6_FlipMovesOneCount ==
    LET g == Served.grievanceId
        new == Served.voteType
        Counter(db, vt) == IF vt = "up" THEN db.grievances[g].upvotes
                           ELSE db.grievances[g].downvotes
    IN  (Answered("voteGrievance") /\ PriorVote = OtherKind(new))
        => /\ RowsOf(DB, Served.userId, g, NoId) = 1
           /\ VoteNow = new
           /\ Served.response.userVote = new
           /\ Counter(DB, new) = Counter(before, new) + 1
           /\ Counter(DB, OtherKind(new)) = Counter(before, OtherKind(new)) - 1

\* C7: a grievance vote served alone and answered 200 returns the number of up
\* rows, the number of down rows and the caller's stored vote (NULL when none)
\* as they are when the request completes.
C7_ResponseReflectsStore ==
    Answered("voteGrievance") =>
        /\ Served.response.upvotes = RowsOfKind(DB, Served.grievanceId, NoId, "up")
        /\ Served.response.downvotes = RowsOfKind(DB, Served.grievanceId, NoId, "down")
        /\ Served.response.userVote = VoteNow

\* the caller took their vote back while another user's up vote stays counted
C7_Witness ==
    /\ Answered("voteGrievance")
    /\ PriorVote = Served.voteType
    /\ Served.response.userVote = NULL
    /\ Served.response.upvotes = 1

\* C8: a PATCH of a grievance, whatever its body, leaves the upvotes and the
\* downvotes of every grievance as they were, equal to the vote-row counts.
C8_PatchLeavesCounters ==
    (Served.pc = "done" /\ Served.route = "patchGrievance") =>
        \A g \in DOMAIN grievances :
            /\ grievances[g].upvotes = before.grievances[g].upvotes
            /\ grievances[g].downvotes = before.grievances[g].downvotes
            /\ grievances[g].upvotes = RowsOfKind(DB, g, NoId, "up")
            /\ grievances[g].downvotes = RowsOfKind(DB, g, NoId, "down")

\* C9: of two updateVoteCounts calls on one target with no call in between,
\* the second leaves the stored counters as the first left them.
C9_RecountIdempotent ==
    (Served.pc = "done" /\ Served.route = "updateVoteCounts" /\ origin.set) =>
        /\ grievances = before.grievances
        /\ comments = before.comments

\* the first of the two calls did change a counter
C9_Witness ==
    /\ Served.pc = "done" /\ Served.route = "updateVoteCounts" /\ origin.set
    /\ Counters(origin.db, Served.grievanceId, Served.commentId)
          # Counters(DB, Served.grievanceId, Served.commentId)

\* C10: a grievance vote of a logged-in caller is answered 400 when its
\* voteType is missing or not up/down, and 404 when the voteType is valid and
\* the grievance does not exist; in both cases the tables are left as they were.
C10_InvalidVoteRejected ==
    (Served.pc = "done" /\ Served.route = "voteGrievance" /\ Served.userId # NoId) =>
        /\ Served.voteType \notin VoteTypes =>
               Served.response.status = 400 /\ DB = before
        /\ (Served.voteType \in VoteTypes
               /\ Served.grievanceId \notin DOMAIN before.grievances) =>
               Served.response.status = 404 /\ DB = before

\* a valid vote on a grievance that does not exist, by a user who holds votes
C10_Witness ==
    /\ Served.pc = "done" /\ Served.route = "voteGrievance"
    /\ Served.voteType \in VoteTypes
    /\ Served.grievanceId \notin DOMAIN grievances
    /\ Served.response.status = 404
    /\ \E g \in GrievanceIds : RowsOf(DB, Served.userId, g, NoId) = 1

\* C11: a comment vote of a logged-in caller with a valid voteType on a comment
\* that does not exist is answered 404 and creates no vote row.
C11_AbsentCommentNotFound ==
    ( /\ Served.pc = "done" /\ Served.route = "voteComment"
      /\ Served.userId # NoId /\ Served.voteType \in VoteTypes
      /\ Served.commentId \notin DOMAIN before.comments )
    => /\ Served.response.status = 404
       /\ userVotes = before.userVotes

\* C12: a vote request on either route without a session is answered 401 and
\* never gets to a statement of the store: it is never in flight, and the
\* tables are as they were when it arrived.
C12_NoSessionRejected ==
    /\ \A s \in Slots : reqs[s].userId = NoId => ~InFlight(s)
    /\ ( /\ Served.pc = "done"
         /\ Served.route \in {"voteGrievance", "voteComment"}
         /\ Served.userId = NoId )
       => Served.response.status = 401 /\ DB = before

\* a comment vote without a session, rejected while users hold votes
C12_Witness ==
    /\ Served.pc = "done" /\ Served.route = "voteComment" /\ Served.userId = NoId
    /\ Served.voteType \in VoteTypes /\ Served.commentId \in DOMAIN comments
    /\ Served.response.status = 401
    /\ userVotes # EmptyBag

\* the grievance and the comment a served request names, as they were on arrival
GrievanceBefore == getGrievance(before, Served.grievanceId)
CommentBefore ==
    IF HasComment(before, Served.commentId) THEN before.comments[Served.commentId]
    ELSE CommentRow(NoId, NoId)

\* the served request came from a logged-in caller who is neither the author of
\* the row nor an admin
Stranger(row) ==
    /\ Served.userId # NoId
    /\ Served.userType # "admin"
    /\ row.authorId # NoId
    /\ row.authorId # Served.userId

\* C13: a PATCH of a grievance by a logged-in caller who is neither its author
\* nor an admin is answered 403 and leaves every grievance as it was.
C13_StrangerPatchForbidden ==
    ( /\ Served.pc = "done" /\ Served.route = "patchGrievance"
      /\ Stranger(GrievanceBefore) )
    => /\ Served.response.status = 403
       /\ DB = before

\* a citizen was refused a status change on an admin's grievance
C13_Witness ==
    /\ Served.pc = "done" /\ Served.route = "patchGrievance"
    /\ Stranger(GrievanceBefore)
    /\ "status" \in DOMAIN Served.updates
    /\ Served.updates["status"] \in GrievanceStatus \ {GrievanceBefore.status}
    /\ Served.response.status = 403

\* C14: a caller who is not an admin gives a grievance a status only by creating
\* it, and then only pending or urgent; a PATCH by a caller who is not an admin
\* leaves every grievance's status as it was.
C14_AuthorStatusOnlyAtCreation ==
    (Served.pc = "done" /\ Served.userType = "citizen") =>
        /\ (Served.route = "createGrievance" /\ Served.response.status = 201) =>
               grievances[Served.grievanceId].status \in {"pending", "urgent"}
        /\ Served.route = "patchGrievance" =>
               \A g \in DOMAIN before.grievances :
                   grievances[g].status = before.grievances[g].status

\* C15: a PATCH with status t by an admin on a grievance in any status is
\* answered 200 and leaves the grievance in status t, also when it was resolved
\* or closed; and every grievance's status is always one of the five values.
C15_AdminStatusPermissive ==
    /\ \A g \in DOMAIN grievances : grievances[g].status \in GrievanceStatus
    /\ ( /\ Served.pc = "done" /\ Served.route = "patchGrievance"
         /\ Served.userType = "admin"
         /\ HasGrievance(before, Served.grievanceId)
         /\ "status" \in DOMAIN Served.updates
         /\ Served.updates["status"] \in GrievanceStatus )
       => /\ Served.response.status = 200
          /\ grievances[Served.grievanceId].status = Served.updates["status"]

\* an admin moved a closed grievance of another user back to pending
C15_Witness ==
    /\ Served.pc = "done" /\ Served.route = "patchGrievance"
    /\ Served.userType = "admin"
    /\ GrievanceBefore.status = "closed"
    /\ GrievanceBefore.authorId # Served.userId
    /\ Served.response.status = 200
    /\ grievances[Served.grievanceId].status = "pending"

\* C16: a PATCH or DELETE of a comment by a logged-in caller who is neither its
\* author nor an admin is refused (not answered 2xx) and leaves the comment as
\* it was.
C16_StrangerCommentRejected ==
    ( /\ Served.pc = "done" /\ Served.route \in {"patchComment", "deleteComment"}
      /\ Stranger(CommentBefore) )
    => /\ Served.response.status \notin {200, 201}
       /\ HasComment(DB, Served.commentId)
       /\ comments[Served.commentId] = CommentBefore

\* C17: after a comment vote served alone and answered 200 the comment's upvotes
\* equal the number of up rows on it; a down vote is answered 200, is stored and
\* returned as userVote down and is not counted; and a flip from up to down
\* lowers the upvotes by one.
C17_CommentCounter ==
    LET c == Served.commentId IN
    ( /\ Served.pc = "done" /\ Served.route = "voteComment"
      /\ Served.userId # NoId /\ Served.voteType \in VoteTypes
      /\ HasComment(before, c)
      /\ origin.set )
    => /\ Served.response.status = 200
       /\ comments[c].upvotes = RowsOfKind(DB, NoId, c, "up")
       /\ (Served.voteType = "down" /\ PriorVote # "down") =>
              /\ VoteNow = "down"
              /\ Served.response.userVote = "down"
       /\ (Served.voteType = "down" /\ PriorVote = "up") =>
              comments[c].upvotes = before.comments[c].upvotes - 1

\* the vote rows other than those of user u on the target
OtherRows(db, u, gid, cid) ==
    DeleteWhere(db.userVotes,
        {r \in DOMAIN db.userVotes :
            r.userId = u /\ r.grievanceId = gid /\ r.commentId = cid})

\* C18: a vote request served alone changes no vote row but the caller's on the
\* target, no counter but the target's, and no other field of any row.
C18_VoteFrame ==
    (Served.pc = "done" /\ Served.route \in {"voteGrievance", "voteComment"}) =>
        /\ OtherRows(DB, Served.userId, Served.grievanceId, Served.commentId)
              = OtherRows(before, Served.userId, Served.grievanceId, Served.commentId)
        /\ DOMAIN grievances = DOMAIN before.grievances
        /\ DOMAIN comments = DOMAIN before.comments
        /\ \A g \in DOMAIN grievances :
               IF g = Served.grievanceId
               THEN /\ grievances[g].authorId = before.grievances[g].authorId
                    /\ grievances[g].status = before.grievances[g].status
               ELSE grievances[g] = before.grievances[g]
        /\ \A c \in DOMAIN comments :
               IF c = Served.commentId
               THEN [comments[c] EXCEPT !.upvotes = 0]
                       = [before.comments[c] EXCEPT !.upvotes = 0]
               ELSE comments[c] = before.comments[c]

\* the caller changed their grievance vote while holding a comment vote of the
\* other kind, and another user's vote on the same grievance stands
C18_Witness ==
    /\ Answered("voteGrievance")
    /\ PriorVote # VoteNow
    /\ VoteNow # NULL
    /\ \E c \in CommentIds :
           StoredVote(DB, Served.userId, NoId, c) = OtherKind(VoteNow)
    /\ \E u \in Users \ {Served.userId} :
           StoredVote(DB, u, Served.grievanceId, NoId) # NULL

\* C19: every vote row names exactly one target, a grievance or a comment, that
\* exists, and its kind is up or down, also after grievances and comments were
\* deleted.
C19_VoteRowsWellFormed ==
    \A r \in DOMAIN userVotes :
        /\ r.voteType \in VoteTypes
        /\ (r.grievanceId = NoId) # (r.commentId = NoId)
        /\ r.grievanceId # NoId => HasGrievance(DB, r.grievanceId)
        /\ r.commentId # NoId => HasComment(DB, r.commentId)

\* the delete of a comment was refused while a vote row points at the comment
C19_Witness ==
    /\ Served.pc = "done" /\ Served.route = "deleteComment"
    /\ Served.response.status = 500
    /\ HasComment(DB, Served.commentId)
    /\ \E r \in DOMAIN userVotes : r.commentId = Served.commentId

\* C20: the remove of a vote handler leaves the caller without a row on the
\* target and goes on to the recount whether or not a row was there; when none
\* was there it changes nothing; and every concurrent request of the user is
\* answered 200.
C20_RemoveIsNoOpWhenAbsent ==
    [][\A s \in Slots :
          RemoveVote(s) =>
              /\ RowsOf([grievances |-> grievances', comments |-> comments',
                         userVotes |-> userVotes', departments |-> departments'],
                        reqs[s].userId, reqs[s].grievanceId, reqs[s].commentId) = 0
              /\ reqs'[s].pc = "countUp"
              /\ RowsOf(DB, reqs[s].userId, reqs[s].grievanceId, reqs[s].commentId) = 0
                    => userVotes' = userVotes
              /\ \A t \in Slots : reqs'[t].pc = "done" => reqs'[t].response.status = 200
      ]_vars

\* two requests of one user both decided to remove the same vote; one has done
\* so, and the other is about to remove a row that is no longer there
C20_Witness ==
    \E s, t \in Slots :
        /\ s # t
        /\ reqs[s].pc = "removeVote"
        /\ reqs[t].userId = reqs[s].userId
        /\ reqs[t].grievanceId = reqs[s].grievanceId
        /\ reqs[t].commentId = reqs[s].commentId
        /\ reqs[t].voteType = reqs[s].voteType
        /\ reqs[t].pc \in {"countUp", "countDown", "setCounts"}
        /\ RowsOf(DB, reqs[s].userId, reqs[s].grievanceId, reqs[s].commentId) = 0

----------------------------------------------------------------------------
(* The grievance list: GET /api/grievances and getGrievances *)

NumListed == 3
MaxLimit == 2
MaxOffset == 1

\* a grievances row with the columns the query filters and sorts by
ListedRow(author, category, municipality, status, timestamp, upvotes, downvotes) ==
    [GrievanceRow(author) EXCEPT
        !.category = category, !.municipality = municipality, !.status = status,
        !.timestamp = timestamp, !.upvotes = upvotes, !.downvotes = downvotes]

\* the rows the listed tables are made of: timestamps and net votes tie
SampleRows ==
    { ListedRow(1, "roads", "north", "pending", 1, 5, 0),
      ListedRow(1, "water", "north", "urgent", 2, 3, 4),
      ListedRow(2, "roads", "south", "urgent", 1, 3, 0),
      ListedRow(2, "roads", "north", "pending", 3, 4, 1) }

ListedTables == [1..NumListed -> SampleRows]

\* the sort keys the client offers
SortKeys == {"newest", "oldest", "upvotes-high", "upvotes-low", "urgent"}

\* req.query of GET /api/grievances.  A text is NULL when the parameter is not
\* given and "" when it is given empty; limit and offset are 0 when the
\* handler or the storage method takes them for absent (not given, NaN, 0).
ListFilters ==
    [category : {NULL, "", "all", "roads"},
     municipality : {"all", "south"},
     status : {NULL, "urgent"},
     sortBy : SortKeys,
     limit : (-1)..MaxLimit,
     offset : 0..MaxOffset]

\* if (filters.x): undefined and the empty string are falsy
Truthy(text) == text # NULL /\ text # ""

\* conditions without the one on status
ConditionsNoStatus(row, filters) ==
    /\ (Truthy(filters.category) /\ filters.category # "all")
           => row.category = filters.category
    /\ (Truthy(filters.municipality) /\ filters.municipality # "all")
           => row.municipality = filters.municipality

\* if (filters.x && filters.x !== 'all') conditions.push(eq(grievances.x, filters.x))
Conditions(row, filters) ==
    /\ (Truthy(filters.category) /\ filters.category # "all")
           => row.category = filters.category
    /\ (Truthy(filters.municipality) /\ filters.municipality # "all")
           => row.municipality = filters.municipality
    /\ (Truthy(filters.status) /\ filters.status # "all")
           => row.status = filters.status

\* the ids of the rows that and(...conditions) lets through
Matching(db, filters) ==
    {g \in DOMAIN db.grievances : Conditions(db.grievances[g], filters)}

\* the number of rows of the page
countPage(db, filters) ==
    LET n == Cardinality(Matching(db, filters))
        left == IF n > filters.offset THEN n - filters.offset ELSE 0
    IN  IF filters.limit > 0 /\ filters.limit < left THEN filters.limit ELSE left

\* db.select({ count: count() }).from(grievances).where(and(...conditions))
countQuery(db, filters) == Cardinality(Matching(db, filters))

\* upvotes - downvotes
NetVotes(row) == row.upvotes - row.downvotes

\* CASE WHEN status = 'urgent' THEN 0 ELSE 1 END
UrgentRank(row) == IF row.status = "urgent" THEN 0 ELSE 1

\* ORDER BY timestamp DESC whatever the sort key
InOrderNewest(a, b, sortBy) == a.timestamp >= b.timestamp

\* ORDER BY: row a may come before row b

InOrder(a, b, sortBy) ==
    CASE sortBy = "oldest" -> a.timestamp <= b.timestamp
      [] sortBy = "upvotes-high" -> NetVotes(a) >= NetVotes(b)
      [] sortBy = "upvotes-low" -> NetVotes(a) <= NetVotes(b)
      [] sortBy = "urgent" ->
            \/ UrgentRank(a) < UrgentRank(b)
            \/ UrgentRank(a) = UrgentRank(b) /\ a.timestamp >= b.timestamp
      [] OTHER -> a.timestamp >= b.timestamp

\* all sequences that hold each element of S once
RECURSIVE Orderings(_)
Orderings(S) ==
    IF S = {} THEN {<< >>}
    ELSE UNION {{<<x>> \o rest : rest \in Orderings(S \ {x})} : x \in S}

\* the orders the database may return the matching rows in: rows with equal
\* keys come in any order
Sorted(db, filters) ==
    {order \in Orderings(Matching(db, filters)) :
        \A i, j \in 1..Len(order) :
            i < j => InOrder(db.grievances[order[i]], db.grievances[order[j]],
                             filters.sortBy)}

\* query.limit(filters.limit) and query.offset(filters.offset), each applied
\* when the value is truthy: OFFSET rows are skipped, then LIMIT rows are taken
Page(order, filters) ==
    LET skipped == IF filters.offset = 0 THEN order
                   ELSE IF filters.offset >= Len(order) THEN << >>
                   ELSE SubSeq(order, filters.offset + 1, Len(order))
    IN  IF filters.limit = 0 \/ filters.limit >= Len(skipped) THEN skipped
        ELSE SubSeq(skipped, 1, filters.limit)

\* PostgreSQL rejects a negative LIMIT or OFFSET
PageRejected(filters) == filters.limit < 0 \/ filters.offset < 0

\* one element of a list response: the selected columns and, for a caller with
\* a session, the userVote the handler adds to the object it is about to send
Listed(id, row) == [id |-> id, row |-> row, userVote |-> NULL]

NoFilters ==
    [category |-> NULL, municipality |-> NULL, status |-> NULL,
     sortBy |-> NULL, limit |-> 0, offset |-> 0]

ListRequest(route, session, gid, filters) ==
    [route |-> route, pc |-> "idle", userId |-> session.userId,
     userType |-> session.userType, grievanceId |-> gid, filters |-> filters,
     total |-> 0, result |-> << >>, cursor |-> 1, response |-> NoResponse]

\* res.json(result) of the grievance list, res.json(comments) of the comment list
ListResponse(req, result) ==
    IF req.route = "listGrievances"
    THEN [status |-> 200, grievances |-> result, total |-> req.total]
    ELSE [status |-> 200, comments |-> result]

\* the for loop over the result: it runs for a caller with a session, once
\* per element, and the response follows it
AfterSelect(req, result) ==
    IF req.userId # NoId /\ result # << >>
    THEN [req EXCEPT !.pc = "annotate", !.result = result, !.cursor = 1]
    ELSE Done([req EXCEPT !.result = result], ListResponse(req, result))

StartList(s, u, filters) ==
    /\ Idle(s)
    /\ reqs' = [reqs EXCEPT ![s] =
           [ListRequest("listGrievances", Session(u), NoId, filters)
               EXCEPT !.pc = "countQuery"]]
    /\ UNCHANGED <<grievances, comments, userVotes, departments>>

\* const totalResult = await countQuery
CountQuery(s) ==
    LET req == reqs[s]
    IN  /\ req.pc = "countQuery"
        /\ reqs' = [reqs EXCEPT ![s] =
               [req EXCEPT !.pc = "selectQuery", !.total = countQuery(DB, req.filters)]]
        /\ UNCHANGED <<grievances, comments, userVotes, departments, before, origin>>

\* const result = await query; the catch of the handler answers 500
SelectQuery(s) ==
    LET req == reqs[s]
    IN  /\ req.pc = "selectQuery"
        /\ IF PageRejected(req.filters)
           THEN reqs' = [reqs EXCEPT ![s] = Done(req, ErrorResponse(500, NULL))]
           ELSE \E order \in Sorted(DB, req.filters) :
                   LET page == Page(order, req.filters)
                       result == [i \in 1..Len(page) |->
                                     Listed(page[i], grievances[page[i]])]
                   IN  reqs' = [reqs EXCEPT ![s] = AfterSelect(req, result)]
        /\ UNCHANGED <<grievances, comments, userVotes, departments, before, origin>>

\* The list served to callers without a session, over every table of sample rows.
InitQuery ==
    /\ grievances \in ListedTables
    /\ comments = << >>
    /\ userVotes = EmptyBag
    /\ departments = << >>
    /\ reqs = [s \in Slots |-> IdleRequest]
    /\ before = InitDB
    /\ origin = NoOrigin

NextQuery ==
    \/ /\ \E filters \in ListFilters : StartList(SeqSlot, NoId, filters)
       /\ UNCHANGED <<before, origin>>
    \/ CountQuery(SeqSlot)
    \/ SelectQuery(SeqSlot)
    \/ /\ Release(SeqSlot)
       /\ UNCHANGED <<before, origin>>

SpecQuery == InitQuery /\ [][NextQuery]_vars

\* the list request that has been answered 200
ListedOK ==
    /\ Served.pc = "done" /\ Served.route = "listGrievances"
    /\ Served.response.status = 200

\* C21: the total of an answered grievance list is the total the same filters
\* give on the same tables with every other limit and offset.
C21_TotalInvariantUnderPagination ==
    ListedOK =>
        \A limit \in 0..(NumListed + 1), offset \in 0..(NumListed + 1) :
            countQuery(DB, [Served.filters EXCEPT !.limit = limit, !.offset = offset])
                = Served.response.total

\* a page shorter than the total: more rows match than the limit lets through
C21_Witness ==
    /\ ListedOK
    /\ Served.filters.limit = 1 /\ Served.filters.offset = 1
    /\ Len(Served.response.grievances) = 1
    /\ Served.response.total = NumListed

\* the rows of the tables that pass the three filters, a filter whose value is
\* in free being no constraint and any other value requiring equality
Passing(free) ==
    {g \in DOMAIN grievances :
        /\ Served.filters.category \notin free
              => grievances[g].category = Served.filters.category
        /\ Served.filters.municipality \notin free
              => grievances[g].municipality = Served.filters.municipality
        /\ Served.filters.status \notin free
              => grievances[g].status = Served.filters.status}

ListObeysFilters(free) ==
    ListedOK =>
        /\ \A i \in 1..Len(Served.response.grievances) :
               Served.response.grievances[i].id \in Passing(free)
        /\ Served.response.total = Cardinality(Passing(free))

\* C22: a category, municipality or status filter that is absent, empty or
\* 'all' is no constraint and any other value requires equality; every
\* grievance of an answered list passes the filters, and total is the number of
\* stored grievances that pass them, whatever the sort key, limit and offset.
C22_FiltersAndTotal == ListObeysFilters({NULL, "", "all"})

\* C22 as the specification states it: only an absent value and 'all' are no
\* constraint
C22_AsStated == ListObeysFilters({NULL, "all"})

\* two filters are active and keep rows out, and the limit cuts the page
\* below the total
C22_Witness ==
    /\ ListedOK
    /\ Served.filters.category = "roads" /\ Served.filters.municipality = "south"
    /\ Served.filters.limit = 1
    /\ Served.response.total = 2
    /\ Len(Served.response.grievances) = 1
    /\ Cardinality(DOMAIN grievances) > 2

\* C23: an answered grievance list is ordered by its sort key: newest by
\* timestamp descending, oldest by timestamp ascending, upvotes-high by
\* upvotes - downvotes descending, upvotes-low by it ascending, urgent with the
\* urgent grievances before all others and timestamp descending within both.
C23_ListOrdered ==
    ListedOK =>
        \A i, j \in 1..Len(Served.response.grievances) :
            i < j =>
                LET a == Served.response.grievances[i].row
                    b == Served.response.grievances[j].row
                    key == Served.filters.sortBy
                IN  /\ key = "newest" => a.timestamp >= b.timestamp
                    /\ key = "oldest" => a.timestamp <= b.timestamp
                    /\ key = "upvotes-high" =>
                           a.upvotes - a.downvotes >= b.upvotes - b.downvotes
                    /\ key = "upvotes-low" =>
                           a.upvotes - a.downvotes <= b.upvotes - b.downvotes
                    /\ key = "urgent" =>
                           /\ b.status = "urgent" => a.status = "urgent"
                           /\ (a.status = "urgent") = (b.status = "urgent")
                                  => a.timestamp >= b.timestamp

\* grievances stored with net votes 5, -1, 3 came back as 5, 3, -1
C23_Witness ==
    /\ ListedOK
    /\ Served.filters.sortBy = "upvotes-high"
    /\ [g \in 1..NumListed |-> grievances[g].upvotes - grievances[g].downvotes]
           = <<5, -1, 3>>
    /\ [i \in 1..Len(Served.response.grievances) |->
           Served.response.grievances[i].row.upvotes
               - Served.response.grievances[i].row.downvotes] = <<5, 3, -1>>

----------------------------------------------------------------------------
(* The userVote of the lists: GET /api/grievances and                      *)
(* GET /api/grievances/:id/comments for a caller with a session            *)

\* const userVote = await storage.getUserVote(req.session.userId, grievance.id);
\* (grievance as any).userVote = userVote?.voteType || null, and after the last
\* element res.json(result)
Annotate(req, vote) ==
    LET result == [req.result EXCEPT ![req.cursor].userVote = vote.voteType]
        next == [req EXCEPT !.result = result, !.cursor = @ + 1]
    IN  IF req.cursor = Len(req.result) THEN Done(next, ListResponse(next, result))
        ELSE next

AnnotateGrievance(s) ==
    LET req == reqs[s]
    IN  /\ req.pc = "annotate" /\ req.route = "listGrievances"
        /\ reqs' = [reqs EXCEPT ![s] =
               Annotate(req, getUserVote(DB, req.userId, req.result[req.cursor].id, NoId))]
        /\ UNCHANGED <<grievances, comments, userVotes, departments, before, origin>>

StartCommentList(s, u, gid) ==
    /\ Idle(s)
    /\ reqs' = [reqs EXCEPT ![s] =
           [ListRequest("listComments", Session(u), gid, NoFilters)
               EXCEPT !.pc = "getComments"]]
    /\ UNCHANGED <<grievances, comments, userVotes, departments>>

\* SELECT ... FROM comments WHERE grievance_id = $1 ORDER BY timestamp DESC:
\* the rows carry no timestamp here, so they come in any order
getComments(db, grievanceId) ==
    Orderings({c \in DOMAIN db.comments : db.comments[c].grievanceId = grievanceId})

\* const comments = await storage.getComments(req.params.id)
GetComments(s) ==
    LET req == reqs[s]
    IN  /\ req.pc = "getComments"
        /\ \E order \in getComments(DB, req.grievanceId) :
               LET result == [i \in 1..Len(order) |->
                                 Listed(order[i], comments[order[i]])]
               IN  reqs' = [reqs EXCEPT ![s] = AfterSelect(req, result)]
        /\ UNCHANGED <<grievances, comments, userVotes, departments, before, origin>>

\* const userVote = await storage.getUserVote(req.session.userId, undefined, comment.id)
AnnotateComment(s) ==
    LET req == reqs[s]
    IN  /\ req.pc = "annotate" /\ req.route = "listComments"
        /\ reqs' = [reqs EXCEPT ![s] =
               Annotate(req, getUserVote(DB, req.userId, NoId, req.result[req.cursor].id))]
        /\ UNCHANGED <<grievances, comments, userVotes, departments, before, origin>>

\* Votes and lists served one at a time, over two grievances and the comment.
InitAnnotate ==
    /\ grievances = [g \in 1..MaxGrievances |-> GrievanceRow(AuthorOf(g))]
    /\ comments = InitDB.comments
    /\ userVotes = EmptyBag
    /\ departments = << >>
    /\ reqs = [s \in Slots |-> IdleRequest]
    /\ before = [InitDB EXCEPT
                    !.grievances = [g \in 1..MaxGrievances |-> GrievanceRow(AuthorOf(g))]]
    /\ origin = NoOrigin

NextAnnotate ==
    \/ /\ Arrive
       /\ \E u \in Users, id \in 1..MaxGrievances, vt \in VoteTypes :
              StartGrievanceVote(SeqSlot, u, id, vt)
    \/ /\ Arrive
       /\ \E u \in Users, id \in CommentIds, vt \in VoteTypes :
              StartCommentVote(SeqSlot, u, id, vt)
    \/ VoteStep(SeqSlot)
    \/ /\ Arrive
       /\ \E u \in Callers : StartList(SeqSlot, u, NoFilters)
    \/ CountQuery(SeqSlot)
    \/ SelectQuery(SeqSlot)
    \/ AnnotateGrievance(SeqSlot)
    \/ /\ Arrive
       /\ \E u \in Callers, id \in ReqGrievanceIds : StartCommentList(SeqSlot, u, id)
    \/ GetComments(SeqSlot)
    \/ AnnotateComment(SeqSlot)
    \/ /\ Release(SeqSlot)
       /\ before' = DB
       /\ origin' = NoOrigin

SpecAnnotate == InitAnnotate /\ [][NextAnnotate]_vars

\* C24: every grievance of a list answered to a caller with a session, and
\* every comment of a comment list, carries as userVote the kind of the caller's
\* own vote row on it, and none when the caller has no row on it; and serving a
\* list changes no table.
C24_OwnVoteAnnotated ==
    /\ (Answered("listGrievances") /\ Served.userId # NoId) =>
           \A i \in 1..Len(Served.response.grievances) :
               Served.response.grievances[i].userVote
                   = StoredVote(DB, Served.userId, Served.response.grievances[i].id, NoId)
    /\ (Answered("listComments") /\ Served.userId # NoId) =>
           \A i \in 1..Len(Served.response.comments) :
               Served.response.comments[i].userVote
                   = StoredVote(DB, Served.userId, NoId, Served.response.comments[i].id)
    /\ Served.route \in {"listGrievances", "listComments"} => DB = before

\* the caller holds an up vote on one grievance and none on the other, the
\* other user holds a down vote on both, and the list shows up and none
C24_Witness ==
    /\ Answered("listGrievances") /\ Served.userId # NoId
    /\ Len(Served.response.grievances) = 2
    /\ \E i, j \in 1..2, other \in Users \ {Served.userId} :
           LET a == Served.response.grievances[i]
               b == Served.response.grievances[j]
           IN  /\ a.userVote = "up" /\ b.userVote = NULL
               /\ StoredVote(DB, other, a.id, NoId) = "down"
               /\ StoredVote(DB, other, b.id, NoId) = "down"

----------------------------------------------------------------------------
(* The admin dashboard: client/src/pages/admin.tsx *)

\* .slice(0, 5)
HighPriorityCount == 5

\* the rows the tables of the dashboard are made of; timestamp counts hours
TriageRows ==
    { ListedRow(1, "roads", "north", "urgent", 26, 5, 2),
      ListedRow(1, "roads", "north", "pending", 50, 0, 0),
      ListedRow(2, "water", "north", "urgent", 2, 1, 3),
      ListedRow(2, "water", "north", "pending", 74, 2, 0) }

TriageTables == [1..NumListed -> TriageRows]

\* new Date() of the browser, in the hours of the timestamps: the clock of the
\* browser may be behind the clock that stamped a row
Clock == {25, 74, 290}

\* useState({ status: 'all', category: 'all', municipality: ... }) and the
\* selects that change it; the query adds sortBy: 'urgent'
AdminFilters ==
    {[NoFilters EXCEPT !.category = "all", !.municipality = "all",
                       !.status = status, !.sortBy = "urgent"] :
        status \in {"all", "urgent"}}

\* Math.floor(ageHours / 24): ageHours is a real number; the whole hours
\* now - timestamp have the same whole days
AgeDays(grievance, now) == (now - grievance.timestamp) \div 24

\* Math.max(0, x) in tenths
MaxZero(tenths) == IF tenths > 0 THEN tenths ELSE 0

\* the score without the age penalty
getPriorityScoreNoPenalty(grievance, now) ==
    MaxZero(10 * (grievance.upvotes - grievance.downvotes)
               * (IF grievance.status = "urgent" THEN 2 ELSE 1))

\* getPriorityScore in tenths: agePenalty is a tenth for each whole day
getPriorityScore(grievance, now) ==
    LET baseScore == grievance.upvotes - grievance.downvotes
        urgentMultiplier == IF grievance.status = "urgent" THEN 2 ELSE 1
        agePenalty == AgeDays(grievance, now)
    IN  MaxZero(10 * (baseScore * urgentMultiplier) - agePenalty)

\* Array.prototype.sort((a, b) => getPriorityScore(b) - getPriorityScore(a)):
\* the sort is stable, so elements of equal score keep their order
RECURSIVE sortByPriority(_, _)
sortByPriority(list, now) ==
    IF list = << >> THEN << >>
    ELSE LET rest == sortByPriority(Tail(list), now)
             score == getPriorityScore(Head(list).row, now)
             k == Cardinality({i \in 1..Len(rest) :
                                  getPriorityScore(rest[i].row, now) > score})
         IN  SubSeq(rest, 1, k) \o <<Head(list)>> \o SubSeq(rest, k + 1, Len(rest))

\* .slice(0, 5)
slice(list, end) == IF Len(list) <= end THEN list ELSE SubSeq(list, 1, end)

\* one entry of High Priority Issues: Priority: {getPriorityScore(grievance).toFixed(1)}
HighPriorityEntry(item, now) ==
    [id |-> item.id, row |-> item.row, priority |-> getPriorityScore(item.row, now)]

\* what the dashboard shows after a render.  sort() orders the array it is
\* called on and returns that same array: grievancesData.grievances is sorted
\* from then on, and Manage Grievances maps over it later in the same render.
AdminPage(req, now) ==
    LET fetched == req.response.grievances
        sorted == sortByPriority(fetched, now)
        high == slice(sorted, HighPriorityCount)
    IN  [route |-> "adminPage", pc |-> "done", userId |-> req.userId,
         userType |-> req.userType, now |-> now, fetched |-> fetched,
         grievancesData |-> sorted,
         highPriority |-> [i \in 1..Len(high) |-> HighPriorityEntry(high[i], now)],
         manageGrievances |-> sorted,
         response |-> req.response]

\* the render that follows the answer to the query of the dashboard
RenderAdminPage(s, now) ==
    LET req == reqs[s]
    IN  /\ req.pc = "done" /\ req.route = "listGrievances"
        /\ req.response.status = 200
        /\ req.userType = "admin"
        /\ reqs' = [reqs EXCEPT ![s] = AdminPage(req, now)]
        /\ UNCHANGED <<grievances, comments, userVotes, departments, before, origin>>

\* The dashboard opened by the administrator over every table of triage rows.
Admin == CHOOSE u \in Users : UserType(u) = "admin"

InitAdmin ==
    /\ grievances \in TriageTables
    /\ comments = << >>
    /\ userVotes = EmptyBag
    /\ departments = << >>
    /\ reqs = [s \in Slots |-> IdleRequest]
    /\ before = InitDB
    /\ origin = NoOrigin

NextAdmin ==
    \/ /\ \E filters \in AdminFilters : StartList(SeqSlot, Admin, filters)
       /\ UNCHANGED <<before, origin>>
    \/ CountQuery(SeqSlot)
    \/ SelectQuery(SeqSlot)
    \/ AnnotateGrievance(SeqSlot)
    \/ \E now \in Clock : RenderAdminPage(SeqSlot, now)
    \/ /\ Release(SeqSlot)
       /\ UNCHANGED <<before, origin>>

SpecAdmin == InitAdmin /\ [][NextAdmin]_vars

\* the dashboard has been rendered
Rendered == Served.pc = "done" /\ Served.route = "adminPage"

\* C25: the priority the dashboard shows for a grievance is, in tenths,
\* max(0, 10 * (upvotes - downvotes) * m - floor(ageHours / 24)) with m = 2 for
\* an urgent grievance and 1 otherwise.
C25_PriorityScoreFormula ==
    Rendered =>
        \A i \in 1..Len(Served.highPriority) :
            LET g == Served.highPriority[i].row
                m == IF g.status = "urgent" THEN 2 ELSE 1
                tenths == 10 * (g.upvotes - g.downvotes) * m
                              - ((Served.now - g.timestamp) \div 24)
            IN  Served.highPriority[i].priority = IF tenths > 0 THEN tenths ELSE 0

\* upvotes 5, downvotes 2, urgent, 48 hours old: 5.8
C25_Witness ==
    /\ Rendered
    /\ \E i \in 1..Len(Served.highPriority) :
           LET e == Served.highPriority[i]
           IN  /\ e.row.upvotes = 5 /\ e.row.downvotes = 2 /\ e.row.status = "urgent"
               /\ Served.now - e.row.timestamp = 48
               /\ e.priority = 58

\* C26: the priority of a grievance whose upvotes - downvotes is not positive
\* is 0 whatever its status and its timestamp, and no priority is negative.
C26_NonPositiveNetScoresZero ==
    Rendered =>
        \A i \in 1..Len(Served.highPriority) :
            LET e == Served.highPriority[i]
            IN  /\ e.priority >= 0
                /\ e.row.upvotes - e.row.downvotes <= 0 => e.priority = 0

\* C29: rendering High Priority Issues leaves the fetched list in the order
\* the server returned it, and Manage Grievances shows that order.
C29_HighPriorityLeavesOrder ==
    Rendered =>
        /\ Served.grievancesData = Served.fetched
        /\ Served.manageGrievances = Served.fetched

----------------------------------------------------------------------------
(* The admin-only routes: requireAdmin, POST /api/departments, GET /api/users *)

MaxDepartments == 2

\* req.body of POST /api/departments: name is NULL when the field is missing
DepartmentBodies ==
    [name : {NULL, "Roads", "Water"}, municipality : {"north", "south"}]

\* insertDepartmentSchema.parse: name and municipality are required texts
ParsesAsDepartment(body) == body.name # NULL /\ body.municipality # NULL

\* if (!req.session.userId || req.session.userType !== "admin") return res.status(403)
requireAdmin(req) == req.userId # NoId /\ req.userType = "admin"

\* gen_random_uuid(): an id no row of the table has
NewDepartmentId(db) ==
    CHOOSE i \in 1..MaxDepartments :
        /\ i \notin DOMAIN db.departments
        /\ \A j \in 1..MaxDepartments : j \notin DOMAIN db.departments => i <= j

\* INSERT INTO departments
createDepartment(db, body) ==
    LET id == NewDepartmentId(db)
        row == [name |-> body.name, municipality |-> body.municipality, headId |-> NoId]
    IN  [db EXCEPT !.departments =
            [d \in DOMAIN @ \cup {id} |-> IF d = id THEN row ELSE @[d]]]

\* requireAdmin and the parse of the body
DepartmentAdmit(req) ==
    IF ~requireAdmin(req) THEN Done(req, ErrorResponse(403, NULL))
    ELSE IF ~ParsesAsDepartment(req.updates) THEN Done(req, ErrorResponse(400, NULL))
    ELSE [req EXCEPT !.pc = "createDepartment"]

StartCreateDepartment(s, u, body) ==
    /\ Idle(s)
    /\ Cardinality(DOMAIN departments) < MaxDepartments
    /\ reqs' = [reqs EXCEPT ![s] = DepartmentAdmit(
                   NewRequest("createDepartment", Session(u), NoId, NoId, NULL, body))]
    /\ UNCHANGED <<grievances, comments, userVotes, departments>>

\* const department = await storage.createDepartment(departmentData), and res.status(201)
CreateDepartment(s) ==
    LET req == reqs[s]
    IN  /\ req.pc = "createDepartment"
        /\ SetDB(createDepartment(DB, req.updates))
        /\ reqs' = [reqs EXCEPT ![s] = Done(req, [NoResponse EXCEPT !.status = 201])]
        /\ UNCHANGED <<before, origin>>

\* GET /api/users: requireAdmin, then a message and no statement of the store
StartListUsers(s, u) ==
    LET req == NewRequest("listUsers", Session(u), NoId, NoId, NULL, NoBody)
    IN  /\ Idle(s)
        /\ reqs' = [reqs EXCEPT ![s] =
               IF ~requireAdmin(req) THEN Done(req, ErrorResponse(403, NULL))
               ELSE Done(req, [NoResponse EXCEPT !.status = 200])]
        /\ UNCHANGED <<grievances, comments, userVotes, departments>>

AdminRoutes == {"createDepartment", "listUsers"}

\* The admin-only routes called one request at a time by every caller.
NextAdminRoutes ==
    \/ /\ Arrive
       /\ \E u \in Callers, body \in DepartmentBodies :
              StartCreateDepartment(SeqSlot, u, body)
    \/ CreateDepartment(SeqSlot)
    \/ /\ Arrive
       /\ \E u \in Callers : StartListUsers(SeqSlot, u)
    \/ /\ Release(SeqSlot)
       /\ before' = DB
       /\ origin' = NoOrigin

SpecAdminRoutes == Init /\ [][NextAdminRoutes]_vars

\* C27: a request to an admin-only route without a session is answered 401
\* and leaves every table as it was.
C27_NoSessionUnauthorized ==
    ( /\ Served.pc = "done" /\ Served.route \in AdminRoutes
      /\ Served.userId = NoId )
    => Served.response.status = 401 /\ DB = before

----------------------------------------------------------------------------
(* What createOrUpdateVote returns *)

\* result[0] of the fallback update's .returning(): the updated row, and
\* undefined when the WHERE clause matched no row
updateReturning(db, vote) ==
    LET matching == {r \in DOMAIN db.userVotes : UpsertConditions(r, vote)}
    IN  IF matching = {} THEN NoVote
        ELSE [(CHOOSE r \in matching : TRUE) EXCEPT !.voteType = vote.voteType]

\* C28: whenever createOrUpdateVote returns without error, by its insert or
\* by its fallback update, the value it returns is the caller's row on the
\* target with the requested kind, and that row is in the table at that moment.
C28_UpsertReturnsStoredRow ==
    [][\A s \in Slots :
          LET vote == VoteOf(reqs[s])
              after == [DB EXCEPT !.userVotes = userVotes']
              returned == IF reqs[s].pc = "insertVote" THEN vote
                          ELSE updateReturning(DB, vote)
          IN  ((InsertVote(s) /\ reqs'[s].pc = "countUp") \/ UpdateVote(s)) =>
                  /\ returned = vote
                  /\ StoredVote(after, vote.userId, vote.grievanceId, vote.commentId)
                         = vote.voteType
      ]_vars

----------------------------------------------------------------------------
(* Creation: POST /api/grievances with a body that names columns of its own *)

\* request bodies of POST /api/grievances that carry counters and an author
CreateBodies ==
    {NoBody, ("status" :> "urgent")}
        \cup {("upvotes" :> n) : n \in 1..MaxBodyCount}
        \cup {("downvotes" :> n) : n \in 1..MaxBodyCount}
        \cup {("authorId" :> u) : u \in Users}
        \cup {[upvotes |-> n, downvotes |-> n, authorId |-> u] :
                 n \in 1..MaxBodyCount, u \in Users}

\* Grievances created and voted on, one request at a time.
NextCreate ==
    \/ /\ Arrive
       /\ \E u \in Callers, body \in CreateBodies : StartCreate(SeqSlot, u, body)
    \/ CreateGrievance(SeqSlot)
    \/ /\ Arrive
       /\ \E u \in Users, id \in ReqGrievanceIds, vt \in VoteTypes :
              StartGrievanceVote(SeqSlot, u, id, vt)
    \/ VoteStep(SeqSlot)
    \/ /\ Release(SeqSlot)
       /\ before' = DB
       /\ origin' = NoOrigin

SpecCreate == Init /\ [][NextCreate]_vars

\* C30: a grievance created through POST /api/grievances starts with upvotes 0
\* and downvotes 0, which is the number of vote rows on it, and with the
\* session user as its author, whatever the body carries.
C30_CreatedWithZeroCounters ==
    ( /\ Served.pc = "done" /\ Served.route = "createGrievance"
      /\ Served.response.status = 201 )
    => /\ ~HasGrievance(before, Served.grievanceId)
       /\ HasGrievance(DB, Served.grievanceId)
       /\ grievances[Served.grievanceId].upvotes = 0
       /\ grievances[Served.grievanceId].downvotes = 0
       /\ grievances[Served.grievanceId].authorId = Served.userId
       /\ \A vt \in VoteTypes : RowsOfKind(DB, Served.grievanceId, NoId, vt) = 0

\* the body asked for counters of its own and for another author, while the
\* other grievance holds votes
C30_Witness ==
    /\ Served.pc = "done" /\ Served.route = "createGrievance"
    /\ Served.response.status = 201
    /\ "upvotes" \in DOMAIN Served.updates /\ Served.updates["upvotes"] > 0
    /\ "downvotes" \in DOMAIN Served.updates /\ Served.updates["downvotes"] > 0
    /\ "authorId" \in DOMAIN Served.updates
    /\ Served.updates["authorId"] # Served.userId
    /\ grievances[Served.grievanceId].upvotes = 0
    /\ userVotes # EmptyBag

====
